---- MODULE Spec2Model ----
(***************************************************************************)
(* The resumable flashcard generation pipeline of core.py                  *)
(* (AnkiFlashcardGenerator): one generator object, the thread that         *)
(* executes run() and the front-end thread that may call cancel().         *)
(*                                                                         *)
(* The two threads share the fields `cancelled` (written by cancel(), read *)
(* at the polls of run()) and `state` (written by both through             *)
(* _update_state).  Each action of the run thread contains at most one     *)
(* access to those two fields, so every interleaving of the Python threads *)
(* is an interleaving of the actions below.                                *)
(*                                                                         *)
(* FlashcardData objects are mutable and shared by reference between the   *)
(* list `flashcards` and the dict `checkpoint`; `heap` holds the objects   *)
(* and both collections hold indices into it.                              *)
(***************************************************************************)
EXTENDS Integers, Sequences, FiniteSets, TLC

\* ---------------------------------------------------------------- bounds
\* Longest word list read from the words file.
MaxWords == 2
\* Most environment faults (backend errors, failed file operations) in a behaviour.
MaxFaults == 1
\* Most lines of a words file read character by character, and their length.
MaxLines == 2
MaxLineLen == 2

\* ---------------------------------------------------------------- inputs
Words == {"hund", "kat"}
ScenarioWords == <<"hund", "kat", "fisk">>
AllWords == {"hund", "kat", "fisk"}
WordOrder == <<"hund", "kat", "fisk">>

\* ProcessingState (core.py 23-33)
IDLE == "idle"
READING_WORDS == "reading_words"
GENERATING_CONTENT == "generating_content"
GENERATING_AUDIO == "generating_audio"
COPYING_AUDIO == "copying_audio"
SENDING_TO_ANKI == "sending_to_anki"
COMPLETED == "completed"
FAILED == "failed"
CANCELLED == "cancelled"
ProcessingState == {IDLE, READING_WORDS, GENERATING_CONTENT, GENERATING_AUDIO,
                    COPYING_AUDIO, SENDING_TO_ANKI, COMPLETED, FAILED, CANCELLED}

\* FlashcardData (core.py 64-73).  `content` stands for the three generated
\* text fields (all set, or all empty in an error record); `aw` / `as` tell
\* whether audio_word_file / audio_sentence_file is set; `err` is "none" for
\* error = None and otherwise names the place that set the error.
NoError == "none"
FlashcardData(w, c, e) == [word |-> w, content |-> c, aw |-> FALSE, as |-> FALSE, err |-> e]

\* ProcessingStats() (core.py 36-45, 120)
ProcessingStats == [total_words |-> 0, processed_words |-> 0, failed_words |-> 0,
                    skipped_words |-> 0, current_word |-> "none",
                    estimated_time_remaining |-> -1]

VARIABLES
    \* GeneratorConfig and the words file (fixed during a run)
    wordsFile,        \* [exists, lines]: the words file, comments and blanks removed
    sourceLines,      \* the lines of the words file as sequences of characters
                      \* (only where read_words is followed line by line)
    test_mode,
    generate_reverse_cards,
    \* fields of the generator
    state,
    cancelled,
    stats,
    checkpoint,       \* word -> index into heap, 0 when the word is no key
    heap,             \* the FlashcardData objects created so far
    audio_cache_metadata, \* the words whose hash is a key of the metadata dict
    \* locals of run()
    words,
    flashcards,       \* sequence of indices into heap
    i,                \* index of the content / audio / staging / publish loop
    pc,               \* position of the run thread
    \* the front-end thread
    cpc,              \* position inside cancel()
    \* files
    ckptFile,         \* [kind, data]: "absent", "torn" (no valid JSON) or "data"
    cacheFiles,       \* the words whose artifact <hash>.wav is in the cache directory
    \* bookkeeping of what happened (not program state)
    faults,
    loaded,           \* the words of the checkpoint loaded by the constructor
    contentCalls,     \* word -> number of g_generate calls
    synthCalls,       \* number of tts_generate calls
    lastTts,          \* how the latest tts_generate call ended: "ok", "429", "error"
    mediaCopies,      \* number of files copied into the media directory
    noteSubs,         \* number of addNote calls
    actedOnErrored,   \* a synthesis call, copy or note was made for an errored record
    staged,           \* the records (heap indices) whose audio was copied to the media dir
    fwdAccepted,      \* the records (heap indices) whose forward note was accepted
    failCounted,      \* the records (heap indices) for which failed_words was incremented
    cancelRequested,  \* cancel() was called
    cancelInContent,  \* cancelled was set while run() was in the content loop
    cancelBetween,    \* n when the first cancel() ran, whole, after word n was done and
                      \* before word n+1 started (-n while its second statement is due)
    savedOk,          \* the words whose content-stage checkpoint save was written
    ckptDeleted,      \* run() removed the checkpoint file
    runTrace,         \* the states run() set through _update_state, repeats dropped
    cacheMetaFile,    \* the words whose hash is a key of cache_metadata.json
    wordReqs,         \* word -> number of word-audio requests (cache lookups) so far
    wordSynthCalls,   \* word -> number of tts_generate calls for the word text so far
    firstOk,          \* the words whose first request synthesized at the first attempt
                      \* and set the record's audio_word_file without error
    storedFirst,      \* those of them whose audio was stored in the cache and whose
                      \* entry the metadata file has held since
    reqStale,         \* the word request in progress found a metadata entry without artifact
    reqSynth,         \* number of tts_generate calls of the word request in progress
    fwdFailedAt,      \* positions of flashcards whose forward note was rejected
    revAt,            \* positions of flashcards for which a reverse note was submitted
    revFailedAt,      \* positions of flashcards whose reverse note was rejected
    restarted,        \* a second generator was constructed on the same files
    app               \* the front-end (anki_tui.py): is_processing, the generator
                      \* self.generator refers to (0: None), the number of generators
                      \* made, the worker's position, and what became of cancel actions

vars == <<wordsFile, sourceLines, test_mode, generate_reverse_cards, state, cancelled, stats,
          checkpoint, heap, audio_cache_metadata, words, flashcards, i, pc, cpc,
          ckptFile, cacheFiles, faults, loaded, contentCalls, synthCalls, lastTts,
          mediaCopies, noteSubs, actedOnErrored, staged, fwdAccepted, failCounted,
          cancelRequested, cancelInContent, cancelBetween, savedOk, ckptDeleted,
          runTrace, cacheMetaFile, wordReqs, wordSynthCalls, firstOk, storedFirst,
          reqStale, reqSynth, fwdFailedAt, revAt, revFailedAt, restarted, app>>

config == <<wordsFile, sourceLines, test_mode, generate_reverse_cards, loaded, restarted, app>>
stateVars == <<state, runTrace>>
cancelVars == <<cpc, cancelRequested, cancelInContent, cancelBetween>>
cacheVars == <<audio_cache_metadata, cacheFiles, cacheMetaFile>>
reqVars == <<wordReqs, wordSynthCalls, firstOk, storedFirst, reqStale, reqSynth>>
noteVars == <<fwdFailedAt, revAt, revFailedAt>>
callVars == <<contentCalls, synthCalls, lastTts, mediaCopies, noteSubs, actedOnErrored, staged,
             fwdAccepted>>
failVars == <<stats, failCounted>>

\* ---------------------------------------------------------------- helpers
\* All sequences over S of length at most n.
SeqsUpTo(S, n) == UNION {[1..m -> S] : m \in 0..n}

\* The words of S in the order of WordOrder (the order of the JSON object).
InOrder(S) == SelectSeq(WordOrder, LAMBDA w : w \in S)

IndexOf(s, w) == CHOOSE n \in 1..Len(s) : s[n] = w

\* load_checkpoint (core.py 212-224): one FlashcardData object per entry of the
\* file; a missing or malformed file leaves the dict empty.
LoadedHeap(S) == [n \in 1..Cardinality(S) |-> FlashcardData(InOrder(S)[n], TRUE, NoError)]
LoadedCheckpoint(S) == [w \in AllWords |-> IF w \in S THEN IndexOf(InOrder(S), w) ELSE 0]

\* save_checkpoint's `data` (core.py 230-241): the records the dict holds now.
CheckpointData == {heap[checkpoint[w]] : w \in {x \in AllWords : checkpoint[x] # 0}}

FileWords == IF ckptFile.kind = "data" THEN {r.word : r \in ckptFile.data} ELSE {}

ContentPcs == {"loop", "gen", "backend", "save_open", "save_dump", "postcontent"}
RunEnded == pc \in {"done", "raised"}

\* AnkiGeneratorApp.__init__ (anki_tui.py 287-289): no generator, not
\* processing; no worker.
AppInit == [is_processing |-> FALSE, generator |-> 0, made |-> 0, wpc |-> "none",
            dropped |-> FALSE, previous |-> FALSE]

\* ---------------------------------------------------------------- Init
\* The state after AnkiFlashcardGenerator.__init__ (core.py 105-133).  A
\* checkpoint file left by an earlier run holds error-free records without
\* audio references: save_checkpoint is only called from the content loop.
InitWith(lines, exists, file, S, cached) ==
    /\ wordsFile = [exists |-> exists, lines |-> lines]
    /\ test_mode \in BOOLEAN
    /\ generate_reverse_cards \in BOOLEAN
    /\ state = IDLE
    /\ cancelled = FALSE
    /\ stats = ProcessingStats
    /\ ckptFile = [kind |-> file,
                   data |-> IF file = "data" THEN {FlashcardData(w, TRUE, NoError) : w \in S}
                            ELSE {}]
    /\ loaded = (IF file = "data" THEN S ELSE {})
    /\ heap = LoadedHeap(loaded)
    /\ checkpoint = LoadedCheckpoint(loaded)
    /\ audio_cache_metadata = cached
    /\ cacheFiles \in SUBSET cached
    /\ words = <<>>
    /\ flashcards = <<>>
    /\ i = 0
    /\ pc = "idle"
    /\ cpc = "idle"
    /\ faults = 0
    /\ contentCalls = [w \in AllWords |-> 0]
    /\ synthCalls = 0
    /\ lastTts = "none"
    /\ mediaCopies = 0
    /\ noteSubs = 0
    /\ actedOnErrored = FALSE
    /\ staged = {}
    /\ fwdAccepted = {}
    /\ failCounted = {}
    /\ cancelRequested = FALSE
    /\ cancelInContent = FALSE
    /\ cancelBetween = 0
    /\ savedOk = {}
    /\ ckptDeleted = FALSE
    /\ runTrace = <<>>
    /\ cacheMetaFile = cached
    /\ wordReqs = [w \in AllWords |-> 0]
    /\ wordSynthCalls = [w \in AllWords |-> 0]
    /\ firstOk = {}
    /\ storedFirst = {}
    /\ reqStale = FALSE
    /\ reqSynth = 0
    /\ fwdFailedAt = {}
    /\ revAt = {}
    /\ revFailedAt = {}
    /\ restarted = FALSE
    /\ app = AppInit

\* The word lists of at most MaxWords words.  The words are interchangeable
\* (nothing in the program depends on which word is which), so a list begins
\* with the first of them.
WordLists == {l \in SeqsUpTo(Words, MaxWords) : l # <<>> => l[1] = WordOrder[1]}

\* Every word list of at most MaxWords words, with or without a words file and
\* a checkpoint file of an earlier run; the audio cache starts empty.
Init ==
    \E lines \in WordLists, exists \in BOOLEAN,
       file \in {"absent", "data"}, S \in SUBSET Words :
        /\ (~exists => lines = <<>>)
        /\ (file # "data" => S = {})
        /\ InitWith(lines, exists, file, S, {})
        /\ sourceLines = <<>>

\* The scenario of three new words: no checkpoint file, an empty cache.
InitScenario == InitWith(ScenarioWords, TRUE, "absent", {}, {}) /\ sourceLines = <<>>

\* _update_state (core.py 196-200) called by the run thread: the state is
\* assigned, whatever it was.
update_state(s) ==
    /\ state' = s
    /\ runTrace' = (IF runTrace # <<>> /\ runTrace[Len(runTrace)] = s THEN runTrace
                    ELSE Append(runTrace, s))

\* ---------------------------------------------------------------- cancel()
\* cancel (core.py 207-210), first statement: self.cancelled = True
\* Variant: a cancel() that changes the state without setting the flag.
CancelledValueUnset == FALSE
CancelledValue == TRUE
CancelSetFlag ==
    /\ UNCHANGED <<reqVars, noteVars>>
    /\ cpc = "idle"
    /\ cancelled' = CancelledValue
    /\ cpc' = "update_state"
    /\ cancelInContent' = (cancelInContent \/ pc \in ContentPcs)
    /\ cancelBetween' = (IF cpc = "idle" /\ ~cancelRequested
                         THEN (IF pc = "loop" /\ i >= 2 /\ i <= Len(words) THEN 1 - i ELSE 0)
                         ELSE cancelBetween)
    /\ cancelRequested' = TRUE
    /\ UNCHANGED <<config, stateVars, failVars, checkpoint, heap, cacheVars, words,
                   flashcards, i, pc, ckptFile, faults, callVars, savedOk, ckptDeleted>>

\* cancel, second statement: self._update_state(ProcessingState.CANCELLED, ...)
CancelUpdateState ==
    /\ UNCHANGED <<reqVars, noteVars>>
    /\ cpc = "update_state"
    /\ state' = CANCELLED
    /\ runTrace' = runTrace
    /\ cpc' = "idle"
    /\ cancelBetween' = (IF cancelBetween >= 0 THEN cancelBetween
                         ELSE IF pc = "loop" /\ i = 1 - cancelBetween THEN -cancelBetween
                         ELSE 0)
    /\ UNCHANGED <<config, cancelled, failVars, checkpoint, heap, cacheVars, words,
                   flashcards, i, pc, cancelRequested, cancelInContent, ckptFile,
                   faults, callVars, savedOk, ckptDeleted>>

\* ---------------------------------------------------------------- run()
\* run (core.py 543-549) up to read_words' first statement (core.py 250):
\* _update_state(READING_WORDS).
RunStart ==
    /\ UNCHANGED <<reqVars, noteVars>>
    /\ pc = "idle"
    /\ update_state(READING_WORDS)
    /\ pc' = "read"
    /\ UNCHANGED <<config, cancelled, failVars, checkpoint, heap, cacheVars, words,
                   flashcards, i, cancelVars, ckptFile, faults, callVars, savedOk,
                   ckptDeleted>>

\* read_words (core.py 252-263) and run (core.py 550-555): a missing file raises
\* FileNotFoundError, an empty list raises ValueError after total_words is set.
\* Variant: a run that goes on with an empty word list.
NoWordsNever(l) == FALSE
\* run (core.py 552-553): `if not words: raise ValueError`.
NoWords(l) == l = <<>>

ReadWords ==
    /\ UNCHANGED <<reqVars, noteVars>>
    /\ pc = "read"
    /\ IF ~wordsFile.exists
       THEN /\ pc' = "except"
            /\ UNCHANGED <<words, failVars, i>>
       ELSE /\ words' = wordsFile.lines
            /\ stats' = [stats EXCEPT !.total_words = Len(wordsFile.lines)]
            /\ failCounted' = failCounted
            /\ IF NoWords(wordsFile.lines)
               THEN pc' = "except" /\ i' = i
               ELSE pc' = "loop" /\ i' = 1
    /\ UNCHANGED <<config, stateVars, cancelled, checkpoint, heap, cacheVars, flashcards,
                   cancelVars, ckptFile, faults, callVars, savedOk, ckptDeleted>>

\* run (core.py 558-560): the for statement and the poll of self.cancelled.
\* Variant: the content loop without its poll of self.cancelled.
ContentLoopExitsNoPoll == i > Len(words)
\* Variant: a content loop that stops one word short.
ContentLoopExitsEarly == i >= Len(words) \/ cancelled
ContentLoopExits == i > Len(words) \/ cancelled
ContentLoop ==
    /\ UNCHANGED <<reqVars, noteVars>>
    /\ pc = "loop"
    /\ pc' = (IF ContentLoopExits THEN "postcontent" ELSE "gen")
    /\ UNCHANGED <<config, stateVars, cancelled, failVars, checkpoint, heap, cacheVars, words,
                   flashcards, i, cancelVars, ckptFile, faults, callVars, savedOk,
                   ckptDeleted>>

\* run (core.py 565-575) for the record r that generate_content_for_word
\* returned, the heap being h: append it; an error-free record becomes
\* checkpoint[word] and the checkpoint is saved, an errored one is counted.
AfterContent(r, h) ==
    /\ heap' = h
    /\ flashcards' = Append(flashcards, r)
    /\ IF h[r].err = NoError
       THEN /\ checkpoint' = [checkpoint EXCEPT ![words[i]] = r]
            /\ pc' = "save_open"
            /\ i' = i
       ELSE /\ checkpoint' = checkpoint
            /\ pc' = "loop"
            /\ i' = i + 1

\* Variant: an errored record that is appended without being counted.
ContentFailedUncounted(r) ==
    /\ stats' = [stats EXCEPT !.processed_words = i]
    /\ failCounted' = failCounted

\* run (core.py 570-575) for an errored record r: it is counted as failed and
\* the round ends.
ContentFailed(r) ==
    /\ stats' = [stats EXCEPT !.failed_words = @ + 1, !.processed_words = i]
    /\ failCounted' = failCounted \cup {r}

\* Variant: a skip of a checkpointed word that is counted in skipped_words.
SkipCheckpointedCounted ==
    /\ stats' = [stats EXCEPT !.skipped_words = @ + 1]
    /\ failCounted' = failCounted
\* generate_content_for_word (core.py 276-278): the skip of a checkpointed
\* word is logged and touches no counter.
SkipCheckpointed == UNCHANGED failVars

\* generate_content_for_word (core.py 273-281): a checkpointed word returns the
\* dict's own object; otherwise current_word and state are set before the call.
GenerateContentEntry ==
    /\ UNCHANGED <<reqVars, noteVars>>
    /\ pc = "gen"
    /\ IF checkpoint[words[i]] # 0
       THEN /\ AfterContent(checkpoint[words[i]], heap)
            /\ IF heap[checkpoint[words[i]]].err = NoError
               THEN SkipCheckpointed
               ELSE ContentFailed(checkpoint[words[i]])
            /\ UNCHANGED stateVars
       ELSE /\ stats' = [stats EXCEPT !.current_word = words[i]]
            /\ failCounted' = failCounted
            /\ update_state(GENERATING_CONTENT)
            /\ pc' = "backend"
            /\ UNCHANGED <<heap, flashcards, checkpoint, i>>
    /\ UNCHANGED <<config, cancelled, cacheVars, words, cancelVars, ckptFile, faults,
                   callVars, savedOk, ckptDeleted>>

\* generate_content_for_word (core.py 283-319): the g_generate call and the
\* parse.  "ok" builds the record; a response that is no JSON ("json") or any
\* other exception ("error") builds an empty record with the error set.
ContentOutcomes == {"ok", "json", "error"}
ContentRecord(w, out) ==
    IF out = "ok" THEN FlashcardData(w, TRUE, NoError) ELSE FlashcardData(w, FALSE, out)

GenerateContentCall ==
    /\ UNCHANGED <<reqVars, noteVars>>
    /\ pc = "backend"
    /\ \E out \in ContentOutcomes :
        /\ (out # "ok" => faults < MaxFaults)
        /\ faults' = (IF out = "ok" THEN faults ELSE faults + 1)
        /\ contentCalls' = [contentCalls EXCEPT ![words[i]] = @ + 1]
        /\ AfterContent(Len(heap) + 1, Append(heap, ContentRecord(words[i], out)))
        /\ IF out = "ok" THEN UNCHANGED failVars ELSE ContentFailed(Len(heap) + 1)
    /\ UNCHANGED <<config, stateVars, cancelled, cacheVars, words, cancelVars, ckptFile,
                   synthCalls, lastTts, mediaCopies, noteSubs, actedOnErrored, staged,
                   fwdAccepted, savedOk, ckptDeleted>>

\* save_checkpoint (core.py 243): open(checkpoint_file, 'w') truncates the file;
\* when it raises, the exception is logged (core.py 245-246) and the file is
\* left as it was.
TruncatedFile == [kind |-> "torn", data |-> {}]
SaveCheckpointOpen ==
    /\ UNCHANGED <<reqVars, noteVars>>
    /\ pc = "save_open"
    /\ \/ /\ ckptFile' = TruncatedFile
          /\ pc' = "save_dump"
          /\ UNCHANGED <<faults, stats, i>>
       \/ /\ faults < MaxFaults
          /\ faults' = faults + 1
          /\ ckptFile' = ckptFile
          /\ stats' = [stats EXCEPT !.processed_words = i]
          /\ i' = i + 1
          /\ pc' = "loop"
    /\ failCounted' = failCounted
    /\ UNCHANGED <<config, stateVars, cancelled, checkpoint, heap, cacheVars, words,
                   flashcards, cancelVars, callVars, savedOk, ckptDeleted>>

\* save_checkpoint (core.py 244): json.dump writes the whole dict, or raises and
\* leaves what it wrote so far; then run sets processed_words (core.py 575).
SaveCheckpointDump ==
    /\ UNCHANGED <<reqVars, noteVars>>
    /\ pc = "save_dump"
    /\ \/ /\ ckptFile' = [kind |-> "data", data |-> CheckpointData]
          /\ savedOk' = savedOk \cup {words[i]}
          /\ faults' = faults
       \/ /\ faults < MaxFaults
          /\ faults' = faults + 1
          /\ UNCHANGED <<ckptFile, savedOk>>
    /\ stats' = [stats EXCEPT !.processed_words = i]
    /\ failCounted' = failCounted
    /\ i' = i + 1
    /\ pc' = "loop"
    /\ UNCHANGED <<config, stateVars, cancelled, checkpoint, heap, cacheVars, words,
                   flashcards, cancelVars, callVars, ckptDeleted>>

\* Variant: an except clause that sets FAILED and does not re-raise.
RunExceptSwallows ==
    /\ UNCHANGED <<reqVars, noteVars>>
    /\ pc = "except"
    /\ update_state(FAILED)
    /\ pc' = "done"
    /\ UNCHANGED <<config, cancelled, failVars, checkpoint, heap, cacheVars, words,
                   flashcards, i, cancelVars, ckptFile, faults, callVars, savedOk,
                   ckptDeleted>>

\* run (core.py 615-617): the except clause sets FAILED and re-raises.
RunExcept ==
    /\ UNCHANGED <<reqVars, noteVars>>
    /\ pc = "except"
    /\ update_state(FAILED)
    /\ pc' = "raised"
    /\ UNCHANGED <<config, cancelled, failVars, checkpoint, heap, cacheVars, words,
                   flashcards, i, cancelVars, ckptFile, faults, callVars, savedOk,
                   ckptDeleted>>

\* Variant: a run that goes on after the content loop without polling.
PostContentReturnsNever == FALSE
\* run (core.py 577-578): the poll of self.cancelled after the content loop.
PostContentReturns == cancelled

\* Variant: a run that generates audio in test mode too.
SkipsAudioNever == FALSE
\* run (core.py 581): `if not self.config.test_mode`.
SkipsAudio == test_mode

\* run (core.py 577-581): the poll after the content loop, then test_mode.
PostContent ==
    /\ UNCHANGED <<reqVars, noteVars>>
    /\ pc = "postcontent"
    /\ IF PostContentReturns
       THEN pc' = "done" /\ i' = i
       ELSE IF SkipsAudio
            THEN pc' = "precopy" /\ i' = i
            ELSE pc' = "aloop" /\ i' = 1
    /\ UNCHANGED <<config, stateVars, cancelled, failVars, checkpoint, heap, cacheVars, words,
                   flashcards, cancelVars, ckptFile, faults, callVars, savedOk,
                   ckptDeleted>>

\* ---------------------------------------------------------------- audio stage
Card == heap[flashcards[i]]
SetCard(f, v) == [heap EXCEPT ![flashcards[i]][f] = v]

\* run (core.py 594-595) after generate_audio_for_flashcard returned False.
AudioFailed ==
    /\ stats' = [stats EXCEPT !.failed_words = @ + 1]
    /\ failCounted' = failCounted \cup {flashcards[i]}

\* run (core.py 582-591): the for statement, the poll, the error check and the
\* time estimate, in units of tts_delay.
\* Variant: an audio loop that hands errored records to the audio stage too.
AudioLoopSkipsNothing == FALSE
\* run (core.py 586-587): `if flashcard.error: continue`.
AudioLoopSkipsErrored == Card.err # NoError
\* Variant: an audio loop that stops one record short.
AudioLoopExitsEarly == i >= Len(flashcards) \/ cancelled
\* run (core.py 582-584): the loop is over, or left at the poll.
AudioLoopExits == i > Len(flashcards) \/ cancelled
AudioLoop ==
    /\ UNCHANGED <<reqVars, noteVars>>
    /\ pc = "aloop"
    /\ IF AudioLoopExits
       THEN pc' = "precopy" /\ UNCHANGED <<i, failVars>>
       ELSE IF AudioLoopSkipsErrored
            THEN pc' = pc /\ i' = i + 1 /\ UNCHANGED failVars
            ELSE /\ pc' = "aentry"
                 /\ i' = i
                 /\ stats' = [stats EXCEPT !.estimated_time_remaining =
                                               (Len(flashcards) - i) * 2]
                 /\ failCounted' = failCounted
    /\ UNCHANGED <<config, stateVars, cancelled, checkpoint, heap, cacheVars, words,
                   flashcards, cancelVars, ckptFile, faults, callVars, savedOk,
                   ckptDeleted>>

\* A metadata entry whose artifact is not in the cache directory.
StaleEntry(w) == w \in audio_cache_metadata /\ w \notin cacheFiles

\* Variant: a lookup that trusts the metadata without looking for the artifact.
get_cached_audio_by_metadata(w) == w \in audio_cache_metadata
\* get_cached_audio (core.py 160-168): a metadata entry counts only when its
\* artifact exists.
get_cached_audio(w) == w \in audio_cache_metadata /\ w \in cacheFiles

\* A word-audio request begins: generate_audio_for_flashcard is past its two
\* checks and looks the word up in the cache (core.py 336).
WordRequest ==
    /\ wordReqs' = [wordReqs EXCEPT ![Card.word] = @ + 1]
    /\ reqStale' = StaleEntry(Card.word)
    /\ reqSynth' = 0
    /\ UNCHANGED <<wordSynthCalls, firstOk, storedFirst>>

\* generate_audio_for_flashcard (core.py 323-342): the poll, the error check
\* and the cache lookup; on a hit the artifact is copied (shutil.copy2 outside
\* any try: an exception reaches run's except clause).
AudioEntrySkipsErrored == Card.err # NoError
AudioEntry ==
    /\ UNCHANGED noteVars
    /\ pc = "aentry"
    /\ IF cancelled \/ AudioEntrySkipsErrored
       THEN /\ AudioFailed
            /\ i' = i + 1
            /\ pc' = "aloop"
            /\ UNCHANGED <<heap, faults, reqVars>>
       ELSE /\ WordRequest
            /\ IF get_cached_audio(Card.word)
               THEN \/ /\ heap' = SetCard("aw", TRUE)
                       /\ pc' = "amid"
                       /\ UNCHANGED <<failVars, i, faults>>
                    \/ /\ faults < MaxFaults
                       /\ faults' = faults + 1
                       /\ pc' = "except"
                       /\ UNCHANGED <<failVars, i, heap>>
               ELSE /\ pc' = "wstate"
                    /\ UNCHANGED <<failVars, i, heap, faults>>
    /\ UNCHANGED <<config, stateVars, cancelled, checkpoint, cacheVars, words,
                   flashcards, cancelVars, ckptFile, callVars, savedOk, ckptDeleted>>

\* generate_audio_for_flashcard (core.py 345-348 and 386-389):
\* _update_state(GENERATING_AUDIO) before the word and before the sentence.
AudioUpdateState ==
    /\ UNCHANGED <<reqVars, noteVars>>
    /\ pc \in {"wstate", "sstate"}
    /\ update_state(GENERATING_AUDIO)
    /\ pc' = (IF pc = "wstate" THEN "wtts" ELSE "stts")
    /\ UNCHANGED <<config, cancelled, failVars, checkpoint, heap, cacheVars, words,
                   flashcards, i, cancelVars, ckptFile, faults, callVars, savedOk,
                   ckptDeleted>>

\* One more tts_generate call for the current record.
Synth ==
    /\ synthCalls' = synthCalls + 1
    /\ actedOnErrored' = (actedOnErrored \/ Card.err # NoError)
    /\ UNCHANGED <<contentCalls, mediaCopies, noteSubs, staged, fwdAccepted>>

\* Variant: a failed word synthesis that marks the record and goes on to the
\* sentence.
AudioErrorGoesOn(h, e) ==
    /\ heap' = [h EXCEPT ![flashcards[i]].err = e]
    /\ AudioFailed
    /\ i' = (IF pc \in {"wtts", "wretry"} THEN i ELSE i + 1)
    /\ pc' = (IF pc \in {"wtts", "wretry"} THEN "amid" ELSE "aloop")

\* The record is marked failed and generate_audio_for_flashcard returns False.
AudioError(h, e) ==
    /\ heap' = [h EXCEPT ![flashcards[i]].err = e]
    /\ AudioFailed
    /\ i' = i + 1
    /\ pc' = "aloop"

\* save_audio_cache_metadata (core.py 146-153): the file is rewritten in place
\* and a failure is only logged.  "saved": the file holds the dict; "kept":
\* open failed and the file is as it was; "torn": json.dump failed after the
\* truncation and the file no longer loads (load_audio_cache_metadata then
\* returns the empty dict).
MetadataOutcomes == {"saved", "kept", "torn"}
save_audio_cache_metadata(out) ==
    cacheMetaFile' = (IF out = "saved" THEN audio_cache_metadata'
                      ELSE IF out = "kept" THEN cacheMetaFile
                      ELSE {})

\* Variant: a cache_audio that copies the artifact and sets no metadata entry.
CacheAudioForgetsEntry(out) ==
    /\ cacheFiles' = cacheFiles \cup {Card.word}
    /\ audio_cache_metadata' = audio_cache_metadata
    /\ save_audio_cache_metadata(out)

\* cache_audio (core.py 170-184) after a successful synthesis of the word:
\* the file is copied into the cache, the metadata entry is set and the
\* metadata file is saved.
CacheAudio(out) ==
    /\ cacheFiles' = cacheFiles \cup {Card.word}
    /\ audio_cache_metadata' = audio_cache_metadata \cup {Card.word}
    /\ save_audio_cache_metadata(out)

\* One more tts_generate call for the word text of the current record, which
\* ends as `res` tells ("ok", "429" or "error"), on the first attempt or not; `out` tells
\* what became of the metadata file ("none": cache_audio did not get to it).
\* A torn metadata file has lost the entries it held.
WordCall(res, out, firstAttempt) ==
    /\ lastTts' = res
    /\ wordSynthCalls' = [wordSynthCalls EXCEPT ![Card.word] = @ + 1]
    /\ firstOk' = (IF res = "ok" /\ out # "none" /\ firstAttempt /\ wordReqs[Card.word] = 1
                   THEN firstOk \cup {Card.word} ELSE firstOk)
    /\ storedFirst' = (IF out = "torn" THEN {}
                       ELSE IF out = "saved" /\ firstAttempt /\ wordReqs[Card.word] = 1
                            THEN storedFirst \cup {Card.word}
                       ELSE storedFirst)
    /\ wordReqs' = wordReqs

\* The word request goes on (to the retry or to the sentence) or is over.
WordRequestGoesOn == reqSynth' = reqSynth + 1 /\ reqStale' = reqStale
WordRequestOver == reqSynth' = 0 /\ reqStale' = FALSE

\* generate_audio_for_flashcard (core.py 350-379): the first tts_generate call
\* for the word.  "ok" sets audio_word_file and caches the audio (a failing
\* copy into the cache is caught by `except Exception`, core.py 377-379);
\* "429" goes to the retry; any other error marks the record.
WordSynth ==
    /\ UNCHANGED noteVars
    /\ pc = "wtts"
    /\ Synth
    /\ \/ \E out \in MetadataOutcomes :
             /\ (out # "saved" => faults < MaxFaults)
             /\ faults' = (IF out = "saved" THEN faults ELSE faults + 1)
             /\ heap' = SetCard("aw", TRUE)
             /\ CacheAudio(out)
             /\ WordCall("ok", out, TRUE)
             /\ WordRequestGoesOn
             /\ pc' = "amid"
             /\ UNCHANGED <<failVars, i>>
       \/ /\ faults < MaxFaults
          /\ faults' = faults + 1
          /\ \/ /\ AudioError(SetCard("aw", TRUE), "word_audio")
                /\ WordCall("ok", "none", TRUE)
                /\ WordRequestOver
                /\ UNCHANGED cacheVars
             \/ /\ pc' = "wretry"
                /\ WordCall("429", "none", TRUE)
                /\ WordRequestGoesOn
                /\ UNCHANGED <<heap, failVars, i, cacheVars>>
             \/ /\ AudioError(heap, "tts")
                /\ WordCall("error", "none", TRUE)
                /\ WordRequestOver
                /\ UNCHANGED cacheVars
    /\ UNCHANGED <<config, stateVars, cancelled, checkpoint, words, flashcards, cancelVars,
                   ckptFile, savedOk, ckptDeleted>>

\* generate_audio_for_flashcard (core.py 365-373): after sleep(20) the word is
\* synthesized once more, with no poll of self.cancelled before the call; a
\* failure of the call, or of the copy into the cache, marks the record.
WordRetry ==
    /\ UNCHANGED noteVars
    /\ pc = "wretry"
    /\ Synth
    /\ \/ \E out \in MetadataOutcomes :
             /\ (out # "saved" => faults < MaxFaults)
             /\ faults' = (IF out = "saved" THEN faults ELSE faults + 1)
             /\ heap' = SetCard("aw", TRUE)
             /\ CacheAudio(out)
             /\ WordCall("ok", out, FALSE)
             /\ WordRequestGoesOn
             /\ pc' = "amid"
             /\ UNCHANGED <<failVars, i>>
       \/ /\ AudioError(heap, "word_retry")
          /\ \E e \in {"429", "error"} : WordCall(e, "none", FALSE)
          /\ WordRequestOver
          /\ UNCHANGED <<cacheVars, faults>>
       \/ /\ faults < MaxFaults
          /\ faults' = faults + 1
          /\ AudioError(SetCard("aw", TRUE), "word_retry")
          /\ WordCall("ok", "none", FALSE)
          /\ WordRequestOver
          /\ UNCHANGED cacheVars
    /\ UNCHANGED <<config, stateVars, cancelled, checkpoint, words, flashcards, cancelVars,
                   ckptFile, savedOk, ckptDeleted>>

\* generate_audio_for_flashcard (core.py 381-382): the poll between the word
\* and the sentence.
AudioMid ==
    /\ UNCHANGED noteVars
    /\ pc = "amid"
    /\ WordRequestOver
    /\ UNCHANGED <<wordReqs, wordSynthCalls, firstOk, storedFirst>>
    /\ IF cancelled
       THEN AudioFailed /\ i' = i + 1 /\ pc' = "aloop"
       ELSE pc' = "sstate" /\ UNCHANGED <<failVars, i>>
    /\ UNCHANGED <<config, stateVars, cancelled, checkpoint, heap, cacheVars, words,
                   flashcards, cancelVars, ckptFile, faults, callVars, savedOk,
                   ckptDeleted>>

\* The example sentence the content backend wrote for a word (core.py 293):
\* a text that is no word of the list.
SentenceText(w) == IF w = "hund" THEN "en hund" ELSE IF w = "kat" THEN "en kat" ELSE "en fisk"

\* Variant: a sentence path that stores the sentence audio in the cache.
SentenceCached ==
    /\ cacheFiles' = cacheFiles \cup {SentenceText(Card.word)}
    /\ audio_cache_metadata' = audio_cache_metadata \cup {SentenceText(Card.word)}
    /\ cacheMetaFile' = audio_cache_metadata'
\* generate_audio_for_flashcard (core.py 391-415): the sentence path writes
\* the audio directory only; it calls neither get_cached_audio nor cache_audio.
SentenceNotCached == UNCHANGED cacheVars

\* generate_audio_for_flashcard (core.py 391-417): the first tts_generate call
\* for the sentence; the sentence is never cached.
SentenceSynth ==
    /\ UNCHANGED <<reqVars, noteVars>>
    /\ pc = "stts"
    /\ Synth
    /\ SentenceNotCached
    /\ \/ /\ heap' = SetCard("as", TRUE)
          /\ lastTts' = "ok"
          /\ i' = i + 1
          /\ pc' = "aloop"
          /\ UNCHANGED <<failVars, faults>>
       \/ /\ faults < MaxFaults
          /\ faults' = faults + 1
          /\ \/ pc' = "sretry" /\ lastTts' = "429" /\ UNCHANGED <<heap, failVars, i>>
             \/ AudioError(heap, "tts") /\ lastTts' = "error"
    /\ UNCHANGED <<config, stateVars, cancelled, checkpoint, words, flashcards,
                   cancelVars, ckptFile, savedOk, ckptDeleted>>

\* generate_audio_for_flashcard (core.py 402-409): the sentence retry.
SentenceRetry ==
    /\ UNCHANGED <<reqVars, noteVars>>
    /\ pc = "sretry"
    /\ Synth
    /\ SentenceNotCached
    /\ \/ /\ heap' = SetCard("as", TRUE)
          /\ lastTts' = "ok"
          /\ i' = i + 1
          /\ pc' = "aloop"
          /\ UNCHANGED failVars
       \/ AudioError(heap, "sentence_retry") /\ lastTts' \in {"429", "error"}
    /\ UNCHANGED <<config, stateVars, cancelled, checkpoint, words, flashcards,
                   cancelVars, ckptFile, faults, savedOk, ckptDeleted>>

\* ---------------------------------------------------------------- publish stage
\* run (core.py 597-598): the poll before staging.
PreCopy ==
    /\ UNCHANGED <<reqVars, noteVars>>
    /\ pc = "precopy"
    /\ pc' = (IF cancelled THEN "done" ELSE "copy_state")
    /\ UNCHANGED <<config, stateVars, cancelled, failVars, checkpoint, heap, cacheVars, words,
                   flashcards, i, cancelVars, ckptFile, faults, callVars, savedOk,
                   ckptDeleted>>

\* copy_audio_to_anki (core.py 440-448): _update_state(COPYING_AUDIO), then the
\* media directory is resolved; when it does not exist the function returns
\* False and run skips send_to_anki (core.py 601-602).
CopyUpdateState ==
    /\ UNCHANGED <<reqVars, noteVars>>
    /\ pc = "copy_state"
    /\ update_state(COPYING_AUDIO)
    /\ \/ pc' = "copy" /\ i' = 1 /\ faults' = faults
       \/ /\ faults < MaxFaults
          /\ faults' = faults + 1
          /\ pc' = "final"
          /\ i' = i
    /\ UNCHANGED <<config, cancelled, failVars, checkpoint, heap, cacheVars, words,
                   flashcards, cancelVars, ckptFile, callVars, savedOk, ckptDeleted>>

\* Variant: a staging loop that passes over nothing but cancelled runs.
CopySkipsOnlyCancelled == cancelled
\* copy_audio_to_anki (core.py 451): the records the staging loop passes over.
CopySkips == Card.err # NoError \/ cancelled
NumAudio(c) == (IF c.aw THEN 1 ELSE 0) + (IF c.as THEN 1 ELSE 0)

\* copy_audio_to_anki (core.py 450-482): one round of the loop; the files of
\* the record are copied with shutil.copy2, whose exception reaches run's
\* except clause.
CopyAudio ==
    /\ UNCHANGED <<reqVars, noteVars>>
    /\ pc = "copy"
    /\ IF i > Len(flashcards)
       THEN pc' = "send_state" /\ UNCHANGED <<i, faults, callVars>>
       ELSE IF CopySkips
            THEN pc' = pc /\ i' = i + 1 /\ UNCHANGED <<faults, callVars>>
            ELSE \/ /\ mediaCopies' = mediaCopies + NumAudio(Card)
                    /\ staged' = staged \cup {flashcards[i]}
                    /\ actedOnErrored' = (actedOnErrored \/ Card.err # NoError)
                    /\ pc' = pc
                    /\ i' = i + 1
                    /\ UNCHANGED <<faults, contentCalls, synthCalls, lastTts, noteSubs, fwdAccepted>>
                 \/ /\ NumAudio(Card) > 0
                    /\ faults < MaxFaults
                    /\ faults' = faults + 1
                    /\ pc' = "except"
                    /\ UNCHANGED <<i, callVars>>
    /\ UNCHANGED <<config, stateVars, cancelled, failVars, checkpoint, heap, cacheVars, words,
                   flashcards, cancelVars, ckptFile, savedOk, ckptDeleted>>

\* send_to_anki (core.py 486-488): _update_state(SENDING_TO_ANKI).
SendUpdateState ==
    /\ UNCHANGED <<reqVars, noteVars>>
    /\ pc = "send_state"
    /\ update_state(SENDING_TO_ANKI)
    /\ pc' = "send"
    /\ i' = 1
    /\ UNCHANGED <<config, cancelled, failVars, checkpoint, heap, cacheVars, words,
                   flashcards, cancelVars, ckptFile, faults, callVars, savedOk,
                   ckptDeleted>>

\* send_to_anki (core.py 491): the records the publish loop passes over.
SendSkips == Card.err # NoError \/ cancelled

\* Variant: a publish loop that goes on to the reverse note after a rejected
\* forward note.
AfterForwardFailureReverse == "send_rev"
\* send_to_anki (core.py 514-517): after a rejected forward note, `continue`.
AfterForwardFailure == "send"

\* send_to_anki (core.py 490-520): one round of the loop up to the forward
\* note.  A failed addNote sets the record's error and skips the reverse note.
SendForward ==
    /\ UNCHANGED reqVars
    /\ pc = "send"
    /\ IF i > Len(flashcards)
       THEN pc' = "final" /\ UNCHANGED <<i, heap, faults, callVars, noteVars>>
       ELSE IF SendSkips
            THEN pc' = pc /\ i' = i + 1 /\ UNCHANGED <<heap, faults, callVars, noteVars>>
            ELSE /\ noteSubs' = noteSubs + 1
                 /\ actedOnErrored' = (actedOnErrored \/ Card.err # NoError)
                 /\ UNCHANGED <<contentCalls, synthCalls, lastTts, mediaCopies, staged>>
                 /\ \/ /\ fwdAccepted' = fwdAccepted \cup {flashcards[i]}
                       /\ IF generate_reverse_cards
                          THEN pc' = "send_rev" /\ i' = i
                          ELSE pc' = pc /\ i' = i + 1
                       /\ UNCHANGED <<heap, faults, noteVars>>
                    \/ /\ faults < MaxFaults
                       /\ faults' = faults + 1
                       /\ heap' = SetCard("err", "publish")
                       /\ pc' = AfterForwardFailure
                       /\ i' = (IF AfterForwardFailure = "send" THEN i + 1 ELSE i)
                       /\ fwdAccepted' = fwdAccepted
                       /\ fwdFailedAt' = fwdFailedAt \cup {i}
                       /\ UNCHANGED <<revAt, revFailedAt>>
    /\ UNCHANGED <<config, stateVars, cancelled, failVars, checkpoint, cacheVars, words,
                   flashcards, cancelVars, ckptFile, savedOk, ckptDeleted>>

\* send_to_anki (core.py 520-541): the reverse note; its failure is only logged.
SendReverse ==
    /\ UNCHANGED reqVars
    /\ pc = "send_rev"
    /\ noteSubs' = noteSubs + 1
    /\ actedOnErrored' = (actedOnErrored \/ Card.err # NoError)
    /\ revAt' = revAt \cup {i}
    /\ fwdFailedAt' = fwdFailedAt
    /\ \/ faults' = faults /\ revFailedAt' = revFailedAt
       \/ /\ faults < MaxFaults
          /\ faults' = faults + 1
          /\ revFailedAt' = revFailedAt \cup {i}
    /\ pc' = "send"
    /\ i' = i + 1
    /\ UNCHANGED <<config, stateVars, cancelled, failVars, checkpoint, heap, cacheVars, words,
                   flashcards, cancelVars, ckptFile, contentCalls, synthCalls, lastTts,
                   mediaCopies, staged, fwdAccepted, savedOk, ckptDeleted>>

\* run (core.py 605-609): _update_state(COMPLETED).
RunCompleted ==
    /\ UNCHANGED <<reqVars, noteVars>>
    /\ pc = "final"
    /\ update_state(COMPLETED)
    /\ pc' = "cleanup"
    /\ UNCHANGED <<config, cancelled, failVars, checkpoint, heap, cacheVars, words,
                   flashcards, i, cancelVars, ckptFile, faults, callVars, savedOk,
                   ckptDeleted>>

\* run (core.py 612-613): the checkpoint file is removed when it exists;
\* os.remove may raise, which reaches the except clause.
RemoveCheckpoint ==
    /\ UNCHANGED <<reqVars, noteVars>>
    /\ pc = "cleanup"
    /\ IF ckptFile.kind = "absent"
       THEN pc' = "done" /\ UNCHANGED <<ckptFile, ckptDeleted, faults>>
       ELSE \/ /\ ckptFile' = [kind |-> "absent", data |-> {}]
               /\ ckptDeleted' = TRUE
               /\ pc' = "done"
               /\ faults' = faults
            \/ /\ faults < MaxFaults
               /\ faults' = faults + 1
               /\ pc' = "except"
               /\ UNCHANGED <<ckptFile, ckptDeleted>>
    /\ UNCHANGED <<config, stateVars, cancelled, failVars, checkpoint, heap, cacheVars, words,
                   flashcards, i, cancelVars, callVars, savedOk>>

Next ==
    \/ CancelSetFlag
    \/ CancelUpdateState
    \/ RunStart
    \/ ReadWords
    \/ ContentLoop
    \/ GenerateContentEntry
    \/ GenerateContentCall
    \/ SaveCheckpointOpen
    \/ SaveCheckpointDump
    \/ PostContent
    \/ AudioLoop
    \/ AudioEntry
    \/ AudioUpdateState
    \/ WordSynth
    \/ WordRetry
    \/ AudioMid
    \/ SentenceSynth
    \/ SentenceRetry
    \/ PreCopy
    \/ CopyUpdateState
    \/ CopyAudio
    \/ SendUpdateState
    \/ SendForward
    \/ SendReverse
    \/ RunCompleted
    \/ RemoveCheckpoint
    \/ RunExcept

Spec == Init /\ [][Next]_vars

\* ---------------------------------------------------------------- rate limits
\* generate_audio_for_flashcard (core.py 362-365 and 399-402): the first call
\* for the word, or for the sentence, ends with ClientError 429 and the code
\* goes to its retry.  Here the signal is ordinary backend behaviour and does
\* not count as a fault.
WordRateLimited ==
    /\ UNCHANGED noteVars
    /\ pc = "wtts"
    /\ Synth
    /\ pc' = "wretry"
    /\ WordCall("429", "none", TRUE)
    /\ WordRequestGoesOn
    /\ UNCHANGED <<heap, failVars, i, cacheVars, faults>>
    /\ UNCHANGED <<config, stateVars, cancelled, checkpoint, words, flashcards, cancelVars,
                   ckptFile, savedOk, ckptDeleted>>

SentenceRateLimited ==
    /\ UNCHANGED <<reqVars, noteVars>>
    /\ pc = "stts"
    /\ Synth
    /\ pc' = "sretry"
    /\ lastTts' = "429"
    /\ UNCHANGED <<heap, failVars, i, faults>>
    /\ UNCHANGED <<config, stateVars, cancelled, checkpoint, cacheVars, words, flashcards,
                   cancelVars, ckptFile, savedOk, ckptDeleted>>

\* One run with audio and without reverse cards, never cancelled, against a
\* backend that may answer any first synthesis call with a rate-limit signal.
InitRetry ==
    \E lines \in WordLists \ {<<>>} :
        /\ InitWith(lines, TRUE, "absent", {}, {})
        /\ sourceLines = <<>>
        /\ ~test_mode
        /\ ~generate_reverse_cards

NextRetry ==
    \/ RunStart
    \/ ReadWords
    \/ ContentLoop
    \/ GenerateContentEntry
    \/ GenerateContentCall
    \/ SaveCheckpointOpen
    \/ SaveCheckpointDump
    \/ PostContent
    \/ AudioLoop
    \/ AudioEntry
    \/ AudioUpdateState
    \/ WordSynth
    \/ WordRateLimited
    \/ WordRetry
    \/ AudioMid
    \/ SentenceSynth
    \/ SentenceRateLimited
    \/ SentenceRetry
    \/ PreCopy
    \/ CopyUpdateState
    \/ CopyAudio
    \/ SendUpdateState
    \/ SendForward
    \/ RunCompleted
    \/ RemoveCheckpoint
    \/ RunExcept

SpecRetry == InitRetry /\ [][NextRetry]_vars

\* ---------------------------------------------------------------- two runs
\* load_checkpoint (core.py 212-224) on the file as it is now: one object per
\* entry, with the fields the file holds.
FileRecord(w) == CHOOSE r \in ckptFile.data : r.word = w
FileHeap == [n \in 1..Cardinality(FileWords) |-> FileRecord(InOrder(FileWords)[n])]

\* After run() has ended a second generator is constructed with the same
\* configuration (core.py 105-133): the checkpoint and the cache metadata are
\* loaded from the files the first run left, everything else starts afresh.
\* The counts of word requests and word synthesis calls go on.
RestartGenerator ==
    /\ RunEnded
    /\ cpc = "idle"
    /\ ~restarted
    /\ restarted' = TRUE
    /\ state' = IDLE
    /\ runTrace' = <<>>
    /\ cancelled' = FALSE
    /\ stats' = ProcessingStats
    /\ loaded' = FileWords
    /\ heap' = FileHeap
    /\ checkpoint' = LoadedCheckpoint(FileWords)
    /\ audio_cache_metadata' = cacheMetaFile
    /\ words' = <<>>
    /\ flashcards' = <<>>
    /\ i' = 0
    /\ pc' = "idle"
    /\ contentCalls' = [w \in AllWords |-> 0]
    /\ synthCalls' = 0
    /\ lastTts' = "none"
    /\ mediaCopies' = 0
    /\ noteSubs' = 0
    /\ staged' = {}
    /\ fwdAccepted' = {}
    /\ failCounted' = {}
    /\ cancelRequested' = FALSE
    /\ cancelInContent' = FALSE
    /\ cancelBetween' = 0
    /\ savedOk' = {}
    /\ ckptDeleted' = FALSE
    /\ reqStale' = FALSE
    /\ reqSynth' = 0
    /\ fwdFailedAt' = {}
    /\ revAt' = {}
    /\ revFailedAt' = {}
    /\ UNCHANGED <<wordsFile, sourceLines, test_mode, generate_reverse_cards, cpc, ckptFile, cacheFiles, faults,
                   cacheMetaFile, actedOnErrored, wordReqs, wordSynthCalls, firstOk,
                   storedFirst>>

\* A second generator is constructed, no front-end being modelled.
Restart == RestartGenerator /\ UNCHANGED app

\* Two runs with audio and without reverse cards on one cache directory,
\* neither of them cancelled; the cache directory is as an earlier session may
\* have left it: metadata entries with or without their artifact.
InitCache ==
    \E lines \in WordLists \ {<<>>}, cached \in SUBSET Words :
        /\ InitWith(lines, TRUE, "absent", {}, cached)
        /\ sourceLines = <<>>
        /\ ~test_mode
        /\ ~generate_reverse_cards

NextCache ==
    \/ RunStart
    \/ ReadWords
    \/ ContentLoop
    \/ GenerateContentEntry
    \/ GenerateContentCall
    \/ SaveCheckpointOpen
    \/ SaveCheckpointDump
    \/ PostContent
    \/ AudioLoop
    \/ AudioEntry
    \/ AudioUpdateState
    \/ WordSynth
    \/ WordRetry
    \/ AudioMid
    \/ SentenceSynth
    \/ SentenceRetry
    \/ PreCopy
    \/ CopyUpdateState
    \/ CopyAudio
    \/ SendUpdateState
    \/ SendForward
    \/ RunCompleted
    \/ RemoveCheckpoint
    \/ RunExcept
    \/ Restart

SpecCache == InitCache /\ [][NextCache]_vars

\* ---------------------------------------------------------------- read_words
\* The characters of a line: whitespace, the comment sign and a letter.
Chars == {" ", "#", "a"}
Whitespace == {" "}

\* str.strip() as read_words uses it (core.py 258): leading and trailing
\* whitespace is removed, one character at a time.
RECURSIVE lstrip(_)
lstrip(s) == IF s # <<>> /\ s[1] \in Whitespace THEN lstrip(Tail(s)) ELSE s
RECURSIVE rstrip(_)
rstrip(s) == IF s # <<>> /\ s[Len(s)] \in Whitespace THEN rstrip(SubSeq(s, 1, Len(s) - 1)) ELSE s
strip(s) == rstrip(lstrip(s))

\* Variant: a filter that keeps comment lines.
KeepsWordNonBlank(word) == word # <<>>
\* read_words (core.py 259): `if word and not word.startswith('#')`.
KeepsWord(word) == word # <<>> /\ word[1] # "#"

\* read_words (core.py 257-260): one round of `for line in f`.
ReadLine ==
    /\ pc = "read"
    /\ i < Len(sourceLines)
    /\ i' = i + 1
    /\ words' = (IF KeepsWord(strip(sourceLines[i + 1]))
                 THEN Append(words, strip(sourceLines[i + 1]))
                 ELSE words)
    /\ UNCHANGED <<config, stateVars, cancelled, failVars, checkpoint, heap, cacheVars,
                   flashcards, pc, cancelVars, ckptFile, faults, callVars, savedOk,
                   ckptDeleted, reqVars, noteVars>>

\* read_words (core.py 262-263) returns the list and run sets total_words
\* (core.py 550).
ReadReturn ==
    /\ pc = "read"
    /\ i = Len(sourceLines)
    /\ pc' = "readdone"
    /\ stats' = [stats EXCEPT !.total_words = Len(words)]
    /\ UNCHANGED <<config, stateVars, cancelled, failCounted, checkpoint, heap, cacheVars,
                   words, flashcards, i, cancelVars, ckptFile, faults, callVars, savedOk,
                   ckptDeleted, reqVars, noteVars>>

\* The words file ["hund", "", "# comment", "kat"].
ScenarioSource ==
    << <<"h", "u", "n", "d">>, <<>>, <<"#", " ", "c", "o", "m", "m", "e", "n", "t">>,
       <<"k", "a", "t">> >>

\* read_words on every words file of at most MaxLines lines of at most
\* MaxLineLen characters, and on the file of the scenario.
InitRead ==
    /\ InitWith(<<>>, TRUE, "absent", {}, {})
    /\ sourceLines \in SeqsUpTo(SeqsUpTo(Chars, MaxLineLen), MaxLines) \cup {ScenarioSource}
    /\ ~test_mode
    /\ ~generate_reverse_cards

NextRead ==
    \/ RunStart
    \/ ReadLine
    \/ ReadReturn

SpecRead == InitRead /\ [][NextRead]_vars

\* ---------------------------------------------------------------- front-end
\* AnkiGeneratorApp (anki_tui.py): the handlers action_start, action_cancel and
\* on_generation_complete run on the UI thread, one at a time; run_generator
\* runs on a worker thread.  The variables of the generator describe the
\* generator made last (before the first is made: the one about to be made).
appFrame == <<wordsFile, sourceLines, test_mode, generate_reverse_cards, loaded, restarted,
              stateVars, cancelled, failVars, checkpoint, heap, cacheVars, words, flashcards,
              i, pc, cancelVars, ckptFile, faults, callVars, savedOk, ckptDeleted, reqVars,
              noteVars>>

\* action_start (anki_tui.py 459-473): is_processing is set and the worker is
\* started; the generator is made later, by the worker.
ActionStart ==
    /\ cpc = "idle"
    /\ ~app.is_processing
    /\ ~restarted
    /\ app.wpc = "none"
    /\ app' = [app EXCEPT !.is_processing = TRUE, !.wpc = "construct"]
    /\ UNCHANGED appFrame

\* run_generator (anki_tui.py 476-480): the worker reads the configuration,
\* constructs a generator and assigns it to self.generator.
WorkerConstruct ==
    /\ app.wpc = "construct"
    /\ app' = [app EXCEPT !.made = @ + 1, !.generator = app.made + 1, !.wpc = "run"]
    /\ IF app.made = 0 THEN UNCHANGED appFrame ELSE RestartGenerator

\* run_generator (anki_tui.py 481): self.generator.run() begins.
WorkerRunStart == app.wpc = "run" /\ RunStart

\* run_generator (anki_tui.py 484-488): run() returned or raised and
\* on_generation_complete is handed to the UI thread.
WorkerDone ==
    /\ app.wpc = "run"
    /\ RunEnded
    /\ app' = [app EXCEPT !.wpc = "complete"]
    /\ UNCHANGED appFrame

\* on_generation_complete (anki_tui.py 507-511).
OnGenerationComplete ==
    /\ cpc = "idle"
    /\ app.wpc = "complete"
    /\ app' = [app EXCEPT !.is_processing = FALSE, !.wpc = "none"]
    /\ UNCHANGED appFrame

\* action_cancel (anki_tui.py 518-522) when self.generator is the generator
\* made last: its cancel() begins.
ActionCancel ==
    /\ app.generator # 0
    /\ app.generator = app.made
    /\ app.wpc # "construct"
    /\ CancelSetFlag

\* action_cancel when self.generator is None: nothing is cancelled.
ActionCancelNoGenerator ==
    /\ cpc = "idle"
    /\ app.generator = 0
    /\ app' = [app EXCEPT !.dropped = TRUE]
    /\ UNCHANGED appFrame

\* action_cancel while the worker has not yet made the generator of the run
\* that was started: self.generator is still the generator of the run before,
\* and cancel() sets the flag and the state of that one.
ActionCancelPrevious ==
    /\ cpc = "idle"
    /\ app.generator # 0
    /\ app.wpc = "construct"
    /\ app' = [app EXCEPT !.previous = TRUE]
    /\ cancelled' = TRUE
    /\ state' = CANCELLED
    /\ cancelRequested' = TRUE
    /\ UNCHANGED <<wordsFile, sourceLines, test_mode, generate_reverse_cards, loaded,
                   restarted, runTrace, failVars, checkpoint, heap, cacheVars, words,
                   flashcards, i, pc, cpc, cancelInContent, cancelBetween, ckptFile, faults,
                   callVars, savedOk, ckptDeleted, reqVars, noteVars>>

\* The front-end on a words file, in test mode and without reverse cards, no
\* checkpoint file being there: up to two runs are started.
InitTui ==
    \E lines \in WordLists \ {<<>>} :
        /\ InitWith(lines, TRUE, "absent", {}, {})
        /\ sourceLines = <<>>
        /\ test_mode
        /\ ~generate_reverse_cards

NextTui ==
    \/ ActionStart
    \/ WorkerConstruct
    \/ WorkerRunStart
    \/ ReadWords
    \/ ContentLoop
    \/ GenerateContentEntry
    \/ GenerateContentCall
    \/ SaveCheckpointOpen
    \/ SaveCheckpointDump
    \/ PostContent
    \/ PreCopy
    \/ CopyUpdateState
    \/ CopyAudio
    \/ SendUpdateState
    \/ SendForward
    \/ RunCompleted
    \/ RemoveCheckpoint
    \/ RunExcept
    \/ WorkerDone
    \/ OnGenerationComplete
    \/ ActionCancel
    \/ CancelUpdateState
    \/ ActionCancelNoGenerator
    \/ ActionCancelPrevious

SpecTui == InitTui /\ [][NextTui]_vars

\* The same program started on the three-word scenario.
SpecScenario == InitScenario /\ [][Next]_vars

\* ---------------------------------------------------------------- properties
Terminal == {COMPLETED, FAILED, CANCELLED}
RecordAt(n) == heap[flashcards[n]]

\* C1: when run() has returned or raised (and no cancel() call is half-way),
\* the pipeline state is Completed, Failed or Cancelled.
C1_RunEndsInTerminalState == (RunEnded /\ cpc = "idle") => state \in Terminal

\* C2: once the state is Cancelled or Failed, no step changes it.
C2_CancelledAndFailedAreTerminal ==
    [][(state \in {CANCELLED, FAILED}) => (state' = state)]_vars

\* C3: when cancel() was requested while run() was in the content loop, the
\* run makes no synthesis call, copies no audio file into the media directory
\* and submits no note.
C3_NoLaterStageAfterCancelInContent ==
    cancelInContent => (synthCalls = 0 /\ mediaCopies = 0 /\ staged = {} /\ noteSubs = 0)

\* A run that was cancelled in the content loop after a word was generated and
\* that has ended.
C3_Witness ==
    /\ cancelInContent
    /\ RunEnded
    /\ flashcards # <<>>
    /\ \E w \in AllWords : contentCalls[w] > 0

\* The scenario of C4: three new words, the first generated without error, the
\* first cancel() call made, whole, after the first word was done and before
\* the second started, and run() ended.
C4_Scenario ==
    /\ words = ScenarioWords
    /\ loaded = {}
    /\ cancelBetween = 1
    /\ flashcards # <<>>
    /\ RecordAt(1).err = NoError
    /\ RunEnded

C4_Outcome ==
    /\ state = CANCELLED
    /\ ckptFile.kind = "data"
    /\ FileWords = {ScenarioWords[1]}
    /\ Cardinality(ckptFile.data) = 1

C5_CheckpointedWordUntouched ==
    \A w \in loaded :
        /\ contentCalls[w] = 0
        /\ (pc \in ContentPcs => checkpoint[w] \notin failCounted)
        /\ heap[checkpoint[w]] = FlashcardData(w, TRUE, NoError)

\* C6: no record of the checkpoint, in the in-memory mapping or in the file,
\* has an error.
C6_CheckpointHoldsNoError ==
    /\ \A w \in AllWords : checkpoint[w] # 0 => heap[checkpoint[w]].err = NoError
    /\ \A r \in ckptFile.data : r.err = NoError

\* C7: the step that deletes the checkpoint file is taken only in a run in
\* which cancel() was never requested.
C7_DeletedOnlyWhenNeverCancelled ==
    [][(~ckptDeleted /\ ckptDeleted') => ~cancelRequested]_vars

\* C8: whenever run() has deleted the checkpoint file, every word of the list
\* has a record without error whose audio was staged and whose forward note
\* was accepted.
C8_DeletedOnlyAfterFullSuccess ==
    ckptDeleted =>
        /\ Len(flashcards) = Len(words)
        /\ \A n \in 1..Len(flashcards) :
            /\ RecordAt(n).err = NoError
            /\ flashcards[n] \in staged
            /\ flashcards[n] \in fwdAccepted

\* C9: at every point of the content stage, also when no file operation
\* fails, every word whose round of the content loop is over and whose record
\* has no error is in the checkpoint file.
C9_WriteThroughCheckpoint ==
    (pc \in ContentPcs /\ faults = 0) =>
        \A n \in 1..Len(flashcards) :
            (n < i /\ RecordAt(n).err = NoError) => words[n] \in FileWords

\* C10: no synthesis call, copy into the media directory or note submission
\* is ever made for a record whose error is set.
C10_ErroredRecordNeverAdvanced == ~actedOnErrored

\* A completed run in which one record failed and another was published.
C10_Witness ==
    /\ pc = "done"
    /\ state = COMPLETED
    /\ \E n \in 1..Len(flashcards) : RecordAt(n).err # NoError
    /\ fwdAccepted # {}

\* C11: when a run that nobody cancelled has set the state to Completed, every
\* record without error has had its audio staged and its forward note
\* accepted, so that the reported count of successful records is the number of
\* forward notes accepted.
C11_CompletedPublishedSuccessfulSubset ==
    (pc = "cleanup" /\ ~cancelRequested) =>
        \A n \in 1..Len(flashcards) :
            RecordAt(n).err = NoError =>
                (flashcards[n] \in staged /\ flashcards[n] \in fwdAccepted)

\* C12: once run() has set the state to Completed, processed_words and
\* total_words both equal the length of the loaded word list.
C12_EveryWordProcessedOnce ==
    (pc \in {"cleanup", "done"} /\ COMPLETED \in {runTrace[n] : n \in 1..Len(runTrace)}) =>
        /\ stats.processed_words = Len(words)
        /\ stats.total_words = Len(words)

\* A completed run over a list with a repeated, checkpointed word and a failed
\* word.
C12_Witness ==
    /\ pc = "done"
    /\ state = COMPLETED
    /\ Len(words) >= 2
    /\ stats.failed_words > 0
    /\ stats.processed_words = Len(words)
    /\ \E n \in 1..Len(words) : words[n] \in loaded

C14_StaleEntryIsMiss ==
    reqStale =>
        /\ pc \in {"wstate", "wtts", "wretry", "amid"}
        /\ state # FAILED
        /\ Card.err = NoError
        /\ (pc \in {"wstate", "wtts"} => reqSynth = 0)
        /\ (pc = "amid" => reqSynth >= 1 /\ Card.aw)

\* A request that found a stale entry and synthesized the word afresh.
C14_Witness == reqStale /\ pc = "amid" /\ reqSynth = 1 /\ Card.word \in cacheFiles

\* C15: a retry after a rate-limit signal, for the word and for the sentence:
\* when the retried call succeeds the record has no error and its audio
\* reference is set; when it fails too the record has an error and the audio
\* stage returns failure (the record is counted as failed).
C15_RateLimitRetryOutcome ==
    [][(pc \in {"wretry", "sretry"} /\ pc' # pc) =>
        IF lastTts' = "ok"
        THEN /\ heap'[flashcards[i]].err = NoError
             /\ heap'[flashcards[i]][IF pc = "wretry" THEN "aw" ELSE "as"]
        ELSE /\ heap'[flashcards[i]].err # NoError
             /\ flashcards[i] \in failCounted'
             /\ pc' = "aloop"]_vars

\* C16: with reverse cards enabled, a rejected forward note is followed by no
\* reverse note for that entry and leaves the record with an error; a
\* rejected reverse note sets no error (a record whose reverse note was
\* rejected has an error only when a forward note of it was rejected too).
C16_ForwardFailureSkipsReverse ==
    generate_reverse_cards =>
        /\ revAt \cap fwdFailedAt = {}
        /\ \A n \in fwdFailedAt : RecordAt(n).err # NoError
        /\ \A n \in revFailedAt :
            RecordAt(n).err # NoError =>
                \E m \in fwdFailedAt : flashcards[m] = flashcards[n]

\* A finished run with reverse cards in which one forward note was rejected
\* and another record got both its notes.
C16_Witness ==
    /\ generate_reverse_cards
    /\ pc = "done"
    /\ fwdFailedAt # {}
    /\ revAt # {}

\* The entries of flashcards whose record holds a content error.
C17_ContentErrors == {n \in 1..Len(flashcards) : RecordAt(n).err \in {"json", "error"}}

\* C17: a content failure yields a record without content and with an error,
\* counted once in failed_words; the content stage never puts the run in
\* Failed, and a content loop that was not cancelled handles every word.
C17_ContentFailureIsPerWord ==
    /\ \A n \in C17_ContentErrors : ~RecordAt(n).content /\ flashcards[n] \in failCounted
    /\ (pc \in ContentPcs =>
            /\ state # FAILED
            /\ stats.failed_words = Cardinality(C17_ContentErrors))
    /\ ((pc = "postcontent" /\ ~cancelled) => Len(flashcards) = Len(words))

\* A completed run whose first word failed in the content stage and whose
\* second word was generated and published.
C17_Witness ==
    /\ pc = "done"
    /\ state = COMPLETED
    /\ Len(flashcards) = 2
    /\ 1 \in C17_ContentErrors
    /\ RecordAt(2).err = NoError
    /\ flashcards[2] \in fwdAccepted

\* C18: when the words file is missing or holds no word, run() sets
\* ReadingWords and then Failed and raises; it makes no content, synthesis,
\* copy or note call and leaves the checkpoint file as it was.
C18_MissingWordSourceFails ==
    (~wordsFile.exists \/ wordsFile.lines = <<>>) =>
        /\ pc \in {"idle", "read", "except", "raised"}
        /\ runTrace = (IF pc = "idle" THEN <<>>
                       ELSE IF pc = "raised" THEN <<READING_WORDS, FAILED>>
                       ELSE <<READING_WORDS>>)
        /\ \A w \in AllWords : contentCalls[w] = 0
        /\ synthCalls = 0 /\ mediaCopies = 0 /\ noteSubs = 0
        /\ ~ckptDeleted /\ savedOk = {}
        /\ ckptFile.kind # "torn" /\ FileWords = loaded

\* A run on an existing words file without words that has raised, a
\* checkpoint file being there.
C18_Witness ==
    /\ wordsFile.exists
    /\ wordsFile.lines = <<>>
    /\ pc = "raised"
    /\ state = FAILED
    /\ loaded # {}

\* C19: an exception that reaches the except clause of run() is followed by
\* nothing but the state becoming Failed and run() raising; after run() has
\* raised it never returns and the state is never Completed.
C19_ExceptionFailsAndRaises ==
    [][/\ (pc = "except" => (pc' = "except" \/ (pc' = "raised" /\ state' = FAILED)))
       /\ (pc = "raised" => (pc' = "raised" /\ state' # COMPLETED))]_vars

\* The removal of the checkpoint file raised after the state was Completed.
C19_Witness ==
    /\ pc = "raised"
    /\ state = FAILED
    /\ \E k \in 1..Len(runTrace) : runTrace[k] = COMPLETED

\* C20: run() sets Completed only after CopyingAudio and then
\* SendingToStore.
C20_CompletedAfterCopyingThenSending ==
    \A k \in 1..Len(runTrace) :
        runTrace[k] = COMPLETED =>
            /\ k >= 3
            /\ runTrace[k - 2] = COPYING_AUDIO
            /\ runTrace[k - 1] = SENDING_TO_ANKI

\* A step of run() that starts a backend call: content generation, speech
\* synthesis or a note submission.
C21_CallStarts ==
    \/ \E w \in AllWords : contentCalls'[w] > contentCalls[w]
    \/ synthCalls' > synthCalls
    \/ noteSubs' > noteSubs

\* C21: once the cancellation flag is set, the only backend calls run() still
\* makes are the call it had already passed the poll for (the call in flight)
\* and the one retry of that call; no other content call, synthesis or note
\* submission, forward or reverse, is started.
C21_BoundedResponseToCancel ==
    [][(cancelled /\ C21_CallStarts) => pc \in {"backend", "wtts", "wretry", "stts", "sretry"}]_vars

\* C22: the cancellation flag is checked before every synthesis call.  At the
\* checks before the first attempts (word and sentence) a set flag makes the
\* audio stage return failure without a call; a retry, due after its backoff,
\* is not made when the flag is set.
C22_FlagCheckedBeforeEverySynthesis ==
    [][/\ (pc \in {"aentry", "amid"} /\ cancelled /\ pc' # pc) =>
              /\ pc' = "aloop"
              /\ synthCalls' = synthCalls
              /\ flashcards[i] \in failCounted'
       /\ (pc \in {"wretry", "sretry"} /\ cancelled) => synthCalls' = synthCalls]_vars

\* C23: a failed file operation on the checkpoint or the cache is never
\* fatal and never marks the record: a checkpoint save leaves the heap alone
\* and does not raise, the copy of a cached artifact does not raise, and a
\* word synthesis whose backend call succeeded leaves the record without
\* error, whatever became of the copy into the cache and of the metadata file.
C23_PersistenceFailureNeverFatal ==
    [][/\ (pc \in {"save_open", "save_dump"} =>
              /\ pc' \notin {"except", "raised"}
              /\ heap' = heap
              /\ state' # FAILED)
       /\ (pc = "aentry" => pc' # "except")
       /\ ((pc \in {"wtts", "wretry"} /\ synthCalls' > synthCalls /\ lastTts' = "ok") =>
              /\ heap'[flashcards[i]].err = NoError
              /\ pc' = "amid")]_vars

\* A line without its surrounding whitespace: what lies between its first and
\* its last character that is no whitespace.
C24_Stripped(l) ==
    LET solid == {k \in 1..Len(l) : l[k] \notin Whitespace}
    IN IF solid = {} THEN <<>>
       ELSE SubSeq(l, CHOOSE a \in solid : \A k \in solid : a <= k,
                      CHOOSE b \in solid : \A k \in solid : k <= b)

\* The lines of the source, stripped, that are not blank and do not start
\* with the comment sign.
C24_Expected ==
    SelectSeq([n \in 1..Len(sourceLines) |-> C24_Stripped(sourceLines[n])],
              LAMBDA l : l # <<>> /\ l[1] # "#")

\* C24: the word list read_words returns is the sequence of the source's
\* lines, in order and without surrounding whitespace, that are non-blank and
\* do not start with '#'.
C24_WordListIsFilteredSource ==
    pc = "readdone" => (words = C24_Expected /\ stats.total_words = Len(C24_Expected))

\* The file ["hund", "", "# comment", "kat"] was read as ["hund", "kat"].
C24_Witness ==
    /\ pc = "readdone"
    /\ sourceLines = ScenarioSource
    /\ words = << <<"h", "u", "n", "d">>, <<"k", "a", "t">> >>

\* A step that calls tts_generate.
C25_Call == synthCalls' > synthCalls

\* C25: each time the audio stage processes a record, the word text and the
\* sentence text are each synthesized by a first call and at most one more;
\* the second call follows a first call for the same text that ended with a
\* rate-limit signal, and ends the processing of that text; a first call that
\* fails otherwise marks the record and ends its processing; a record marked
\* by a word failure gets no sentence synthesis.
C25_SingleRetryPolicy ==
    [][/\ (C25_Call => (pc \in {"wtts", "wretry", "stts", "sretry"} /\ Card.err = NoError))
       /\ ((C25_Call /\ pc = "wtts") =>
              /\ reqSynth = 0
              /\ pc' \in {"amid", "wretry", "aloop"}
              /\ (pc' = "wretry" <=> lastTts' = "429")
              /\ (lastTts' = "error" => heap'[flashcards[i]].err # NoError))
       /\ ((C25_Call /\ pc = "wretry") =>
              /\ reqSynth = 1
              /\ lastTts = "429"
              /\ pc' \in {"amid", "aloop"})
       /\ ((C25_Call /\ pc = "stts") =>
              /\ Card.aw
              /\ pc' \in {"aloop", "sretry"}
              /\ (pc' = "sretry" <=> lastTts' = "429")
              /\ (lastTts' = "error" => heap'[flashcards[i]].err # NoError))
       /\ ((C25_Call /\ pc = "sretry") => (lastTts = "429" /\ pc' = "aloop"))
       /\ ((C25_Call /\ heap'[flashcards[i]].err # NoError) => (pc' = "aloop" /\ i' = i + 1))
       /\ ((C25_Call /\ pc' = "aloop") => i' = i + 1)]_vars

\* A finished run over one word whose word call and sentence call were both
\* rate-limited and both succeeded at the retry.
C25_Witness ==
    /\ pc = "done"
    /\ Len(flashcards) = 1
    /\ synthCalls = 4
    /\ RecordAt(1).aw
    /\ RecordAt(1).as
    /\ RecordAt(1).err = NoError

\* The records whose audio_sentence_file is set in this step.
C26_SentenceSet ==
    {k \in DOMAIN heap' : heap'[k].as /\ (k \notin DOMAIN heap \/ ~heap[k].as)}

\* C26: the sentence audio is never cached.  A record's sentence-audio
\* reference is only ever set by a step of the current run that calls the
\* synthesis backend for the sentence with success, a newly constructed
\* generator holds no record with sentence audio, and every key a step adds
\* to the cache metadata or to the cache directory is the word text of a
\* record.
C26_SentenceNeverCached ==
    [][/\ (C26_SentenceSet # {} =>
              /\ pc \in {"stts", "sretry"}
              /\ C26_SentenceSet = {flashcards[i]}
              /\ synthCalls' = synthCalls + 1
              /\ lastTts' = "ok")
       /\ (pc' = "idle" => \A k \in DOMAIN heap' : ~heap'[k].as)
       /\ \A key \in (audio_cache_metadata' \ audio_cache_metadata) \cup
                       (cacheFiles' \ cacheFiles) \cup (cacheMetaFile' \ cacheMetaFile) :
              \E k \in DOMAIN heap : heap[k].word = key]_vars

\* The second run on a cache directory ended: a word was served from the
\* cache without a word synthesis and its sentence was synthesized again.
C26_Witness ==
    /\ restarted
    /\ pc = "done"
    /\ \E n \in 1..Len(flashcards) :
        /\ RecordAt(n).aw
        /\ RecordAt(n).as
        /\ wordReqs[RecordAt(n).word] = 2
        /\ wordSynthCalls[RecordAt(n).word] = 1
    /\ synthCalls >= 1

\* C27: failed_words goes up by one at a time and only for a record whose
\* error is set at that moment (the record the content stage has just
\* appended, or the record the audio stage is at); when the audio stage is
\* over, cancelled or not, failed_words is the number of entries whose record
\* has an error.
C27_FailedCountsOnlyErrors ==
    [][/\ (stats'.failed_words > stats.failed_words =>
              /\ stats'.failed_words = stats.failed_words + 1
              /\ heap'[IF pc \in ContentPcs THEN flashcards'[Len(flashcards')]
                        ELSE flashcards[i]].err # NoError)
       /\ ((pc = "aloop" /\ pc' = "precopy") =>
              stats.failed_words =
                  Cardinality({n \in 1..Len(flashcards) : RecordAt(n).err # NoError}))]_vars

\* C28: in test mode run() makes no synthesis call, looks no word up in the
\* cache and writes nothing to it, never sets GeneratingAudio, and the state
\* it sets after GeneratingContent (after ReadingWords, when every word was
\* checkpointed) is CopyingAudio; a run past the poll before staging has set
\* CopyingAudio.
C28_TestModeSkipsAudio ==
    test_mode =>
        /\ synthCalls = 0
        /\ \A w \in AllWords : wordReqs[w] = 0 /\ wordSynthCalls[w] = 0
        /\ audio_cache_metadata = {} /\ cacheFiles = {} /\ cacheMetaFile = {}
        /\ state # GENERATING_AUDIO
        /\ \A k \in 1..Len(runTrace) :
            /\ runTrace[k] # GENERATING_AUDIO
            /\ (runTrace[k] = GENERATING_CONTENT /\ k < Len(runTrace)) =>
                   runTrace[k + 1] = COPYING_AUDIO
            /\ (runTrace[k] = READING_WORDS /\ k < Len(runTrace)) =>
                   runTrace[k + 1] \in {GENERATING_CONTENT, COPYING_AUDIO, FAILED}
        /\ (pc \in {"copy", "send_state", "send", "send_rev", "final", "cleanup"} =>
               \E k \in 1..Len(runTrace) : runTrace[k] = COPYING_AUDIO)

\* A completed run in test mode that generated content and published a note.
C28_Witness ==
    /\ test_mode
    /\ pc = "done"
    /\ state = COMPLETED
    /\ runTrace = <<READING_WORDS, GENERATING_CONTENT, COPYING_AUDIO, SENDING_TO_ANKI, COMPLETED>>
    /\ noteSubs > 0

\* The audio stage is done with entry n: its record failed or has both audio
\* references.
C29_AudioDone(n) == RecordAt(n).err # NoError \/ (RecordAt(n).aw /\ RecordAt(n).as)

\* Entry n shares its record with an entry up to m (a word repeated in the list).
C29_SharedUpTo(n, m) == \E k \in 1..m : k <= Len(flashcards) /\ flashcards[k] = flashcards[n]

C29_AudioPcs == {"aloop", "aentry", "wstate", "wtts", "wretry", "amid", "sstate", "stts", "sretry"}

\* C29: the stages run one after the other and each handles the list in
\* order.  The content loop appends the record of word i in round i; a synthesis call is
\* made only when every word has its record; while the audio stage is at
\* entry i the entries before it are done (or the run was cancelled) and the
\* records after it have no audio; copies and notes are made only when the
\* audio stage is done with every entry; the staging loop and the publish
\* loop have handled the entries before the one they are at, and a note is
\* submitted only when every record without error is staged.
C29_StagesStrictlySequential ==
    /\ Len(flashcards) <= Len(words)
    /\ (pc \in {"loop", "gen", "backend"} => Len(flashcards) = i - 1)
    /\ (pc \in {"save_open", "save_dump"} => Len(flashcards) = i)
    /\ (synthCalls > 0 => Len(flashcards) = Len(words))
    /\ (pc \in C29_AudioPcs =>
           \A n \in 1..Len(flashcards) :
               /\ (n < i => (C29_AudioDone(n) \/ cancelled))
               /\ ((n > i /\ ~C29_SharedUpTo(n, i)) => (~RecordAt(n).aw /\ ~RecordAt(n).as)))
    /\ ((~test_mode /\ (mediaCopies > 0 \/ staged # {} \/ noteSubs > 0)) =>
           \A n \in 1..Len(flashcards) : C29_AudioDone(n))
    /\ (pc = "copy" =>
           \A n \in 1..Len(flashcards) :
               /\ (n < i => (RecordAt(n).err # NoError \/ flashcards[n] \in staged \/ cancelled))
               /\ ((n >= i /\ flashcards[n] \in staged) => C29_SharedUpTo(n, i - 1)))
    /\ (noteSubs > 0 =>
           \A n \in 1..Len(flashcards) :
               RecordAt(n).err # NoError \/ flashcards[n] \in staged)
    /\ (pc \in {"send", "send_rev"} =>
           \A n \in 1..Len(flashcards) :
               /\ (n < i => (RecordAt(n).err # NoError \/ flashcards[n] \in fwdAccepted
                              \/ cancelled))
               /\ ((n > i /\ flashcards[n] \in fwdAccepted) => C29_SharedUpTo(n, i)))

\* A completed run with audio over two different words, both published.
C29_Witness ==
    /\ ~test_mode
    /\ pc = "done"
    /\ state = COMPLETED
    /\ Len(flashcards) = 2
    /\ flashcards[1] # flashcards[2]
    /\ synthCalls = 4
    /\ {flashcards[1], flashcards[2]} \subseteq (staged \cap fwdAccepted)

\* C30: once run() has set the state to Completed, no step changes the state.
C30_CompletedIsTerminal ==
    [][state = COMPLETED => state' = COMPLETED]_vars

\* C31: a run submits at most one forward note per distinct word: a forward
\* note is submitted for an entry only when none was submitted for an earlier
\* entry of the same word; and no step sets the error of a record whose
\* forward note was accepted.
C31_OneForwardNotePerWord ==
    [][/\ ((pc = "send" /\ noteSubs' > noteSubs) =>
              \A n \in 1..(i - 1) :
                  RecordAt(n).word = Card.word =>
                      (flashcards[n] \notin fwdAccepted /\ n \notin fwdFailedAt))
       /\ \A k \in fwdAccepted :
              (k \in DOMAIN heap' /\ heap[k].err = NoError) => heap'[k].err = NoError]_vars

\* A step in which the front-end's cancel action begins.
C32_CancelIssued ==
    \/ cpc = "idle" /\ cpc' = "update_state"
    \/ app'.dropped # app.dropped
    \/ app'.previous # app.previous

\* C32: a cancel action issued while is_processing is set reaches the
\* generator of the run in progress: that generator has been made,
\* self.generator refers to it, and its cancelled flag is set by the step.
C32_CancelReachesRunningGenerator ==
    [][(app.is_processing /\ C32_CancelIssued) =>
          /\ app.made >= 1
          /\ app.generator = app.made
          /\ app.wpc \in {"run", "complete"}
          /\ cancelled']_vars

C34_SkippedWordsNeverChanges == stats.skipped_words = 0

\* A completed run that skipped a checkpointed word in the content stage and
\* passed over an errored record in the later stages.
C34_Witness ==
    /\ pc = "done"
    /\ state = COMPLETED
    /\ \E n \in 1..Len(words) : words[n] \in loaded
    /\ \E n \in 1..Len(flashcards) : RecordAt(n).err # NoError

====
